---- MODULE Spec2Model ----
(***************************************************************************)
(* State-machine model of the artifact-assembly scripts of the repository: *)
(*   scripts/embed_python.py      (content-addressed embedding)            *)
(*   scripts/merge_fat_archive.py (per-architecture archive merge)         *)
(*   python/build.py              (module objects added to libpython, the  *)
(*                                 final python executable)                *)
(*   scripts/gen_header.py        (the flat header)                        *)
(* Files are modelled by what the scripts can observe of them: existence,  *)
(* the linked executable they start with and the payload archives that     *)
(* zipcopy appended to them.                                               *)
(***************************************************************************)
EXTENDS Integers, Sequences, FiniteSets, TLC

\* ------------------------------------------------------------------ bounds
\* number of distinct linker outputs a relink can produce
MaxExe == 2
\* payload archives one file may hold before the model stops appending
MaxZips == 2
\* number of distinct contents of each payload root
MaxTree == 2
\* longest input list handed to the merge tool
MaxInputs == 2

\* ------------------------------------------------------------- file values
NoFile == [exists |-> FALSE, exe |-> 0, zips |-> <<>>]
Exe(e) == [exists |-> TRUE, exe |-> e, zips |-> <<>>]

NoDir == [exists |-> FALSE, files |-> {}]
Dir(t) == [exists |-> TRUE, files |-> t]

\* The contents a payload root may have: a tree is a set of <<path, bytes>>
\* pairs, paths and bytes being strings over a small alphabet.
TreeOf(i) == { << <<1>>, <<i>> >> }
Trees == { TreeOf(i) : i \in 1..MaxTree }

Names == {"ralph", "scaffold"}
DefaultName == "ralph"

\* ------------------------------------------------------------------ hashes
\* sha256(...).hexdigest()[:16], taken as collision free on the byte stream
HexDigest(stream) == <<"hex", stream>>
Missing == <<"missing", <<>> >>
NoneVal == <<"none", <<>> >>

RECURSIVE StrLess(_, _)
StrLess(a, b) ==
  IF b = <<>> THEN FALSE
  ELSE IF a = <<>> THEN TRUE
  ELSE IF Head(a) < Head(b) THEN TRUE
  ELSE IF Head(a) > Head(b) THEN FALSE
  ELSE StrLess(Tail(a), Tail(b))

RECURSIVE DirStream(_)
DirStream(files) ==
  IF files = {} THEN <<>>
  ELSE LET f == CHOOSE x \in files : \A y \in files : y = x \/ StrLess(x[1], y[1])
       IN  f[1] \o f[2] \o DirStream(files \ {f})

compute_dir_hash(directory) ==
  IF ~directory.exists THEN Missing ELSE HexDigest(DirStream(directory.files))

compute_file_hash(filepath) ==
  IF ~filepath.exists THEN Missing ELSE HexDigest(<<filepath.exe, filepath.zips>>)

\* ------------------------------------------------------------------- state
VARIABLES
  target,    \* out/<name>                      : [Names -> file]
  base,      \* build/<name>.base               : [Names -> file]
  stamp,     \* build/.embed-python-<name>.stamp : [Names -> stamp file]
  stdlib,    \* python/build/results/py-tmp/lib : directory
  defaults,  \* src/ralph/tools/python_defaults : directory
  tempZip,   \* build/python-embed.zip          : scratch payload archive
  run,       \* what the last invocation of embed_python.py reported
  argCurrent, \* needs_embedding: its argument current
  argStored, \* needs_embedding: its argument stored
  decision,  \* needs_embedding: returned (bool, reason)
  ar,        \* the static archives on disk : [ArPaths -> archive]
  mrun,      \* what the last invocation of merge_fat_archive.py reported
  libpython, \* build/libpython3.12.a and build/.aarch64/libpython3.12.a
  modDirs,   \* which directories exist under <build_dir>/Modules
  missingObjs, \* listed object files that were not compiled
  irun,      \* what the calls of _add_module_objects_to_library reported
  bins,      \* the python executables the toolchain left: fat, x86_64, aarch64
  libSrc,    \* whether <install_dir>/lib/python3.12 exists
  pyTmpLib,  \* whether results/py-tmp/lib exists
  outputBin, \* python.com
  frun,      \* where create_fat_binary stands and what it reported
  headers,   \* the header files gen_header.py reads: [file -> lines]
  visited,   \* gen_header.py: the set visited
  frames,    \* gen_header.py: the calls of expand in progress, innermost last
  body,      \* gen_header.py: the lines emitted so far
  hrun       \* gen_header.py: where main stands

embedVars == <<target, base, stamp, stdlib, defaults, tempZip, run>>
decideVars == <<argCurrent, argStored, decision>>
mergeVars == <<ar, mrun>>
injectVars == <<libpython, modDirs, missingObjs, irun>>
fatVars == <<bins, libSrc, pyTmpLib, outputBin, frun>>
headerVars == <<headers, visited, frames, body, hrun>>

vars == <<target, base, stamp, stdlib, defaults, tempZip, run,
          argCurrent, argStored, decision, ar, mrun,
          libpython, modDirs, missingObjs, irun,
          bins, libSrc, pyTmpLib, outputBin, frun,
          headers, visited, frames, body, hrun>>

\* stamp file contents
NoStamp == [kind |-> "absent", base_binary |-> NoneVal, stdlib |-> NoneVal, defaults |-> NoneVal]
Garbage == [kind |-> "garbage", base_binary |-> NoneVal, stdlib |-> NoneVal, defaults |-> NoneVal]
NonDict == [kind |-> "nondict", base_binary |-> NoneVal, stdlib |-> NoneVal, defaults |-> NoneVal]
EmptyDict == [kind |-> "dict", base_binary |-> NoneVal, stdlib |-> NoneVal, defaults |-> NoneVal]

\* scratch archive contents
NoZip == "absent"
StdlibZip == "lib/"
FullZip == "lib/ python_defaults/"

Idle == [tool |-> "none", outcome |-> "none", exit |-> 0, reason |-> "", adopted |-> "no"]

get_current_state(target_base) ==
  [base_binary |-> compute_file_hash(target_base),
   stdlib |-> compute_dir_hash(stdlib),
   defaults |-> compute_dir_hash(defaults)]

\* json.loads of the stamp: None, a dict, or some other JSON value
get_stored_state(stamp_file) ==
  IF stamp_file.kind \in {"absent", "garbage"}
  THEN [kind |-> "none", base_binary |-> NoneVal, stdlib |-> NoneVal, defaults |-> NoneVal]
  ELSE stamp_file

save_state(state) ==
  [kind |-> "dict", base_binary |-> state.base_binary,
   stdlib |-> state.stdlib, defaults |-> state.defaults]

\* the check for a missing base is left out
needs_embedding_NoMissingCheck(current, stored) ==
  IF stored.kind = "none"
    THEN [needs |-> TRUE, reason |-> "no previous embed state found"]
  ELSE IF current.base_binary # stored.base_binary
    THEN [needs |-> TRUE, reason |-> "base binary changed (relinked)"]
  ELSE IF current.stdlib # stored.stdlib
    THEN [needs |-> TRUE, reason |-> "Python stdlib changed"]
  ELSE IF current.defaults # stored.defaults
    THEN [needs |-> TRUE, reason |-> "Python defaults changed"]
  ELSE [needs |-> FALSE, reason |-> "up to date"]

\* the payload roots are compared before the base
needs_embedding_RootsFirst(current, stored) ==
  IF stored.kind = "none"
    THEN [needs |-> TRUE, reason |-> "no previous embed state found"]
  ELSE IF current.base_binary = Missing
    THEN [needs |-> TRUE, reason |-> "base binary not found (run --save-base after linking)"]
  ELSE IF current.stdlib # stored.stdlib
    THEN [needs |-> TRUE, reason |-> "Python stdlib changed"]
  ELSE IF current.defaults # stored.defaults
    THEN [needs |-> TRUE, reason |-> "Python defaults changed"]
  ELSE IF current.base_binary # stored.base_binary
    THEN [needs |-> TRUE, reason |-> "base binary changed (relinked)"]
  ELSE [needs |-> FALSE, reason |-> "up to date"]

needs_embedding(current, stored) ==
  IF stored.kind = "none"
    THEN [needs |-> TRUE, reason |-> "no previous embed state found"]
  ELSE IF current.base_binary = Missing
    THEN [needs |-> TRUE, reason |-> "base binary not found (run --save-base after linking)"]
  ELSE IF current.base_binary # stored.base_binary
    THEN [needs |-> TRUE, reason |-> "base binary changed (relinked)"]
  ELSE IF current.stdlib # stored.stdlib
    THEN [needs |-> TRUE, reason |-> "Python stdlib changed"]
  ELSE IF current.defaults # stored.defaults
    THEN [needs |-> TRUE, reason |-> "Python defaults changed"]
  ELSE [needs |-> FALSE, reason |-> "up to date"]

\* the outcomes of the external tools of one embed run
ToolOutcomes == {"ok", "zip_stdlib_fails", "zip_defaults_fails", "zipcopy_fails", "killed_after_copy"}

\* every run takes a new snapshot of the target
resolve_base_Always(target_base, tgt) == IF tgt.exists THEN tgt ELSE target_base

\* "Check if we have a base binary": the base the run works with
resolve_base(target_base, tgt) == IF target_base.exists THEN target_base ELSE tgt

\* the copy is left out and the payload lands on the target as it is
copy_base_InPlace(target_base, tgt) == IF tgt.exists THEN tgt ELSE target_base

\* shutil.copy2(target_base, target)
copy_base(target_base, tgt) == target_base

\* zipcopy appends the entries of the payload archive to the executable
zipcopy(payload, tgt) == [tgt EXCEPT !.zips = Append(@, payload)]

\* the hash is taken of a path that does not exist
updated_state_WrongPath(current_state, target_base) ==
  save_state([current_state EXCEPT !.base_binary = compute_file_hash(NoFile)])

\* "Update state": the stamp written at the end of a successful run
updated_state(current_state, target_base) ==
  save_state([current_state EXCEPT !.base_binary = compute_file_hash(target_base)])

\* the files an embed run leaves behind and what it reports
embed(n, force, tools) ==
  LET same == [target |-> target[n], base |-> base[n], stamp |-> stamp[n], tempZip |-> tempZip]
      Report(outcome, exit, reason, adopted) ==
        [tool |-> "embed", outcome |-> outcome, exit |-> exit, reason |-> reason,
         adopted |-> adopted]
  IN
  IF ~stdlib.exists
    THEN same @@ [run |-> Report("fatal", 1, "Python stdlib not found", "no")]
  ELSE IF ~defaults.exists
    THEN same @@ [run |-> Report("fatal", 1, "Python defaults not found", "no")]
  ELSE IF ~base[n].exists /\ ~target[n].exists
    THEN same @@ [run |-> Report("fatal", 1, "No base binary", "no")]
  ELSE
    LET adopted == IF base[n].exists THEN "no"
                   ELSE IF Len(target[n].zips) > 0 THEN "unclean" ELSE "clean"
        target_base == resolve_base(base[n], target[n])
        current_state == get_current_state(target_base)
        stored_state == get_stored_state(stamp[n])
    IN
    IF stored_state.kind = "nondict"
      THEN [same EXCEPT !.base = target_base]
           @@ [run |-> Report("crash", 1, "AttributeError", adopted)]
    ELSE
      LET d == needs_embedding(current_state, stored_state)
          reason == IF ~d.needs /\ ~force THEN "target binary missing" ELSE d.reason
          payload == [stdlib |-> stdlib.files, defaults |-> defaults.files]
          copied == copy_base(target_base, target[n])
      IN
      IF ~d.needs /\ ~force /\ target[n].exists
        THEN [same EXCEPT !.base = target_base]
             @@ [run |-> Report("skipped", 0, d.reason, adopted)]
      ELSE IF tools = "killed_after_copy"
        THEN [same EXCEPT !.base = target_base, !.target = copied]
             @@ [run |-> Report("killed", 137, reason, adopted)]
      ELSE IF tools = "zip_stdlib_fails"
        THEN [same EXCEPT !.base = target_base, !.target = copied, !.tempZip = NoZip]
             @@ [run |-> Report("fatal_zip", 1, reason, adopted)]
      ELSE IF tools = "zip_defaults_fails"
        THEN [same EXCEPT !.base = target_base, !.target = copied, !.tempZip = StdlibZip]
             @@ [run |-> Report("fatal_zip", 1, reason, adopted)]
      ELSE IF tools = "zipcopy_fails"
        THEN [same EXCEPT !.base = target_base, !.target = copied, !.tempZip = FullZip]
             @@ [run |-> Report("fatal_zipcopy", 1, reason, adopted)]
      ELSE [target |-> zipcopy(payload, copied),
            base |-> target_base,
            stamp |-> updated_state(current_state, target_base),
            tempZip |-> NoZip,
            run |-> Report("embedded", 0, reason, adopted)]

\* ------------------------------------------------- merge_fat_archive.py
\* a path is its parent directory (a sequence of components) and its name
Path(parent, name) == [parent |-> parent, name |-> name]
\* a.parent / ".aarch64" / a.name
Aarch64Of(p) == Path(p.parent \o <<".aarch64">>, p.name)

LibNames == {"libA.a", "libB.a"}
OutName == "libout.a"
InputPaths == { Path(<<"build">>, l) : l \in LibNames }
OutputPath == Path(<<"build">>, OutName)
PrimaryPaths == InputPaths \cup {OutputPath}
ArPaths == PrimaryPaths \cup { Aarch64Of(p) : p \in PrimaryPaths }

NoArchive == [exists |-> FALSE, members |-> <<>>]
Member(name, lib, arch) == [name |-> name, lib |-> lib, arch |-> arch]
\* what the toolchain puts into each input archive; both inputs hold a
\* member called util.o
Built(p) ==
  LET arch == IF p.parent = <<"build">> THEN "x86_64" ELSE "aarch64" IN
  [exists |-> TRUE,
   members |-> IF p.name = "libA.a"
               THEN <<Member("a.o", p.name, arch), Member("util.o", p.name, arch)>>
               ELSE <<Member("util.o", p.name, arch), Member("b.o", p.name, arch)>>]

RECURSIVE AddLibs_LastWins(_, _)
\* a member whose name a later input repeats is dropped
AddLibs_LastWins(fs, inputs) ==
  IF inputs = <<>> THEN <<>>
  ELSE LET later == AddLibs_LastWins(fs, Tail(inputs)) IN
       SelectSeq(fs[Head(inputs)].members,
                 LAMBDA m : \A i \in 1..Len(later) : later[i].name # m.name) \o later

RECURSIVE AddLibs(_, _)
\* the ADDLIB directives of the script, in order
AddLibs(fs, inputs) ==
  IF inputs = <<>> THEN <<>>
  ELSE fs[Head(inputs)].members \o AddLibs(fs, Tail(inputs))

\* ar -M on "CREATE output / ADDLIB each input / SAVE / END"
merge_archives(fs, output, inputs, arOk) ==
  IF arOk /\ \A i \in 1..Len(inputs) : fs[inputs[i]].exists
  THEN [ok |-> TRUE,
        fs |-> [fs EXCEPT ![output] = [exists |-> TRUE, members |-> AddLibs(fs, inputs)]]]
  ELSE [ok |-> FALSE, fs |-> fs]

\* only the first missing path is reported
SelectMissing_First(fs, paths) ==
  LET idx == { i \in 1..Len(paths) : ~fs[paths[i]].exists } IN
  IF idx = {} THEN <<>> ELSE << paths[CHOOSE i \in idx : \A j \in idx : i <= j] >>

RECURSIVE SelectMissing(_, _)
\* missing = [str(a) for a in aarch64_inputs if not a.exists()]
SelectMissing(fs, paths) ==
  IF paths = <<>> THEN <<>>
  ELSE (IF fs[Head(paths)].exists THEN <<>> ELSE <<Head(paths)>>)
       \o SelectMissing(fs, Tail(paths))

MergeReport(output, inputs, exit, error, missing) ==
  [tool |-> "merge", output |-> output, inputs |-> inputs, exit |-> exit,
   error |-> error, missing |-> missing]

MergeIdle == [tool |-> "none", output |-> OutputPath, inputs |-> <<>>, exit |-> 0,
              error |-> "", missing |-> <<>>]

\* main() of merge_fat_archive.py; ar1Ok, ar2Ok: whether the archiver works
merge_main(fs, output, inputs, ar1Ok, ar2Ok) ==
  IF Len(inputs) < 1
    THEN [fs |-> fs, run |-> MergeReport(output, inputs, 1, "usage", <<>>)]
  ELSE
    LET x86 == merge_archives(fs, output, inputs, ar1Ok) IN
    IF ~x86.ok
      THEN [fs |-> x86.fs, run |-> MergeReport(output, inputs, 1, "ar failed", <<>>)]
    ELSE
      LET aarch64_output == Aarch64Of(output)
          aarch64_inputs == [i \in 1..Len(inputs) |-> Aarch64Of(inputs[i])]
          missing == SelectMissing(x86.fs, aarch64_inputs)
      IN
      IF missing # <<>>
        THEN [fs |-> x86.fs, run |-> MergeReport(output, inputs, 1, "missing aarch64 archives", missing)]
      ELSE
        LET arm == merge_archives(x86.fs, aarch64_output, aarch64_inputs, ar2Ok) IN
        IF ~arm.ok
          THEN [fs |-> arm.fs, run |-> MergeReport(output, inputs, 1, "ar failed", <<>>)]
          ELSE [fs |-> arm.fs, run |-> MergeReport(output, inputs, 0, "", <<>>)]

\* ---------------------------------------------------------- python/build.py
\* object files kept of each group's list
MaxFiles == 3
\* listed object files that may be absent from the source tree
MaxMissing == 1
\* calls of _add_module_objects_to_library on the same archives
MaxRuns == 2

Archs == {"x86_64", "aarch64"}

Take(s, n) == SubSeq(s, 1, IF Len(s) < n THEN Len(s) ELSE n)

\* (subdir, files, prefix_for_renaming); the prefix None is the empty name
object_groups ==
  << [subdir |-> "_hacl",
      files |-> Take(<<"Hacl_Hash_SHA2.o", "Hacl_Hash_SHA1.o", "Hacl_Hash_MD5.o",
                       "Hacl_Hash_SHA3.o">>, MaxFiles),
      prefix |-> <<>>],
     [subdir |-> "expat",
      files |-> Take(<<"xmlparse.o", "xmlrole.o", "xmltok.o">>, MaxFiles),
      prefix |-> <<>>],
     [subdir |-> "_decimal/libmpdec",
      files |-> Take(<<"basearith.o", "constants.o", "context.o", "convolute.o",
                       "crt.o", "difradix2.o", "fnt.o", "fourstep.o", "io.o",
                       "mpalloc.o", "mpdecimal.o", "numbertheory.o", "sixstep.o",
                       "transpose.o">>, MaxFiles),
      prefix |-> <<"mpdec_">>] >>

Subdirs == { object_groups[i].subdir : i \in 1..Len(object_groups) }

\* the object file <obj_dir>/f (x86_64) or <obj_dir>/.aarch64/f, and its bytes
Obj_Primary(subdir, arch, f) == <<subdir, "x86_64", f>>
Obj(subdir, arch, f) == <<subdir, arch, f>>

ListedObjs ==
  UNION { { Obj(object_groups[i].subdir, a, object_groups[i].files[j]) :
              a \in Archs, j \in 1..Len(object_groups[i].files) } :
          i \in 1..Len(object_groups) }

\* the listed files of a group for which src.exists()
Present(g, arch, missing) ==
  SelectSeq(g.files, LAMBDA f : Obj(g.subdir, arch, f) \notin missing)

\* A file name is the sequence of its pieces, so that names built by
\* concatenation are equal exactly when their text is: the prefix and the
\* architecture tag are one piece each, and so is every listed file name,
\* none of which begins with either.
Pieces(f) == <<f>>

\* file name of the copy in the temporary directory
StagedName_NoTag(g, arch, f) == g.prefix \o Pieces(f)
StagedName(g, arch, f) ==
  IF arch = "x86_64" THEN g.prefix \o Pieces(f)
                     ELSE g.prefix \o <<"aarch64_">> \o Pieces(f)

\* base name of the path handed to the archiver
MemberName_NoPrefix(g, arch, f) == Pieces(f)
MemberName(g, arch, f) ==
  IF g.prefix # <<>> THEN StagedName(g, arch, f) ELSE Pieces(f)

\* shutil.copy2(src, dst) into the temporary directory
copy2(tmp, name, bytes) ==
  { e \in tmp : e.name # name } \cup { [name |-> name, body |-> bytes] }

Content(tmp, name) == (CHOOSE e \in tmp : e.name = name).body

RECURSIVE stage(_, _, _, _)
stage(tmp, g, arch, files) ==
  IF files = <<>> THEN tmp
  ELSE stage(copy2(tmp, StagedName(g, arch, Head(files)), Obj(g.subdir, arch, Head(files))),
             g, arch, Tail(files))

\* ar r: a member of that name is replaced where it stands, else appended
Positions(archive, name) == { i \in 1..Len(archive) : archive[i].name = name }
ArReplace_Append(archive, m) == Append(archive, m)
ArReplace(archive, m) ==
  IF Positions(archive, m.name) = {} THEN Append(archive, m)
  ELSE LET i == CHOOSE k \in Positions(archive, m.name) :
                  \A l \in Positions(archive, m.name) : k <= l
       IN [archive EXCEPT ![i] = m]

RECURSIVE ar_r(_, _)
ar_r(archive, members) ==
  IF members = <<>> THEN archive
  ELSE ar_r(ArReplace(archive, Head(members)), Tail(members))

\* the archiver invocation that fails, if one does
NoFail == <<"none", "none">>
Fails == {NoFail} \cup (Subdirs \X Archs)

\* one architecture of one group: lines 339-353 and 359-372
add_arch(st, g, arch, missing, fail) ==
  LET files == Present(g, arch, missing)
      prefixed == g.prefix # <<>>
      tmp2 == IF prefixed THEN stage(st.tmp, g, arch, files) ELSE st.tmp
      staged == IF prefixed
                  THEN [i \in 1..Len(files) |->
                          [op |-> "stage", subdir |-> g.subdir, arch |-> arch,
                           names |-> <<StagedName(g, arch, files[i])>>]]
                  ELSE <<>>
      members == [i \in 1..Len(files) |->
                    [name |-> MemberName(g, arch, files[i]),
                     body |-> IF prefixed
                                THEN Content(tmp2, StagedName(g, arch, files[i]))
                                ELSE Obj(g.subdir, arch, files[i])]]
      added == [op |-> "add", subdir |-> g.subdir, arch |-> arch,
                names |-> [i \in 1..Len(files) |-> members[i].name]]
  IN
  IF files = <<>> THEN st
  ELSE IF fail = <<g.subdir, arch>>
    THEN [st EXCEPT !.tmp = tmp2,
                    !.log = @ \o staged \o <<[added EXCEPT !.op = "error"]>>,
                    !.outcome = "failed"]
  ELSE [st EXCEPT !.lib[arch].members = ar_r(@, members),
                  !.tmp = tmp2,
                  !.log = @ \o staged \o <<added>>]

\* one turn of the loop over object_groups
add_group_Fatal(st, g, dirs, missing, fail) ==
  IF dirs[g.subdir] = "absent"
    THEN [st EXCEPT !.outcome = "failed"]
  ELSE
    LET x86 == add_arch(st, g, "x86_64", missing, fail) IN
    IF x86.outcome = "failed" THEN x86
    ELSE IF st.lib["aarch64"].given /\ dirs[g.subdir] = "both"
      THEN add_arch(x86, g, "aarch64", missing, fail)
    ELSE x86
add_group(st, g, dirs, missing, fail) ==
  IF dirs[g.subdir] = "absent"
    THEN [st EXCEPT !.warnings = Append(@, g.subdir)]
  ELSE
    LET x86 == add_arch(st, g, "x86_64", missing, fail) IN
    IF x86.outcome = "failed" THEN x86
    ELSE IF st.lib["aarch64"].given /\ dirs[g.subdir] = "both"
      THEN add_arch(x86, g, "aarch64", missing, fail)
    ELSE x86

RECURSIVE add_groups(_, _, _, _, _)
add_groups(st, groups, dirs, missing, fail) ==
  IF groups = <<>> \/ st.outcome = "failed" THEN st
  ELSE add_groups(add_group(st, Head(groups), dirs, missing, fail),
                  Tail(groups), dirs, missing, fail)

\* the function applied to a list of groups
inject(groups, libs, dirs, missing, fail) ==
  add_groups([lib |-> libs, tmp |-> {}, log |-> <<>>, warnings |-> <<>>, outcome |-> "ok"],
             groups, dirs, missing, fail)

add_module_objects_to_library(libs, dirs, missing, fail) ==
  inject(object_groups, libs, dirs, missing, fail)

\* ----------------------------------------------------------------- actions
EmbedInit ==
  /\ target = [n \in Names |-> NoFile]
  /\ base = [n \in Names |-> NoFile]
  /\ stamp = [n \in Names |-> NoStamp]
  /\ stdlib = NoDir
  /\ defaults = NoDir
  /\ tempZip = NoZip
  /\ run = Idle

NoState == [kind |-> "none", base_binary |-> NoneVal, stdlib |-> NoneVal, defaults |-> NoneVal]
Undecided == [needs |-> FALSE, reason |-> "not called"]

DecideIdle ==
  /\ argCurrent = [base_binary |-> Missing, stdlib |-> Missing, defaults |-> Missing]
  /\ argStored = NoState
  /\ decision = Undecided

MergeInit ==
  /\ ar = [p \in ArPaths |-> NoArchive]
  /\ mrun = MergeIdle

\* --- create_fat_binary (python/build.py)
\* an executable the toolchain left, by the build that produced it; 0: none
BinVersions == 1..MaxExe
BinKinds == {"fat", "x86_64", "aarch64"}

NoOutput == [exists |-> FALSE, image |-> <<"none">>, zips |-> <<>>]
\* shutil.copy2(fat_python_bin, output_bin)
CopyOf(b) == [exists |-> TRUE, image |-> <<"copy", b["fat"]>>, zips |-> <<>>]
\* apelink -o output_bin -M ape-m1.c x86_64_bin aarch64_bin
Linked(b) ==
  [exists |-> TRUE, image |-> <<"apelink", "ape-m1.c", b["x86_64"], b["aarch64"]>>,
   zips |-> <<>>]

FatReport(pc, outcome, prev) == [pc |-> pc, outcome |-> outcome, prev |-> prev]
FatIdleReport == FatReport("idle", "none", NoOutput)

FatIdle ==
  /\ bins = [k \in BinKinds |-> IF k = "fat" THEN 1 ELSE 0]
  /\ libSrc = FALSE
  /\ pyTmpLib = FALSE
  /\ outputBin = NoOutput
  /\ frun = FatIdleReport

\* step 2 of create_fat_binary, skipped when python.com is already there
assemble_KeepExisting(b, out, linkOk) ==
  IF out.exists THEN [ok |-> TRUE, out |-> out]
  ELSE IF b["x86_64"] # 0 /\ b["aarch64"] # 0
    THEN IF linkOk THEN [ok |-> TRUE, out |-> Linked(b)] ELSE [ok |-> FALSE, out |-> out]
  ELSE [ok |-> TRUE, out |-> CopyOf(b)]
\* step 2 of create_fat_binary
assemble(b, out, linkOk) ==
  IF b["x86_64"] # 0 /\ b["aarch64"] # 0
    THEN IF linkOk THEN [ok |-> TRUE, out |-> Linked(b)] ELSE [ok |-> FALSE, out |-> out]
  ELSE [ok |-> TRUE, out |-> CopyOf(b)]

\* --- scripts/gen_header.py
\* header files the generator can reach
MaxHeaders == 3
\* lines of one header file
MaxLines == 1

HeaderFiles == 1..MaxHeaders
\* lib/libagent.h
entry == 1
skip_emit == {entry}
\* the files under lib/; the others are headers of vendored dependencies
InLib(f) == f <= 2

\* a line is an #include that resolves to a header file, an #include that
\* resolves to nothing, or any other line (a system #include is one of these)
Plain == [kind |-> "plain", file |-> 0]
Unresolved == [kind |-> "unresolved", file |-> 0]
Include(f) == [kind |-> "include", file |-> f]
Lines == {Plain, Unresolved} \cup { Include(f) : f \in HeaderFiles }
Contents == UNION { [1..k -> Lines] : k \in 0..MaxLines }

\* state of main while it builds body
Expanding(vis, stack, out) == [visited |-> vis, frames |-> stack, body |-> out]

\* the sweep expands a header again although it was visited
expand_SweepAgain(filepath, st) ==
  IF filepath \in st.visited /\ st.frames # <<>> THEN st
  ELSE Expanding(st.visited \cup {filepath},
                 Append(st.frames, [file |-> filepath, pos |-> 1]),
                 IF filepath \notin skip_emit
                   THEN Append(st.body, <<"marker", filepath, 0>>)
                   ELSE st.body)
\* expand(filepath) up to its loop over the lines: lines 93-101
expand(filepath, st) ==
  IF filepath \in st.visited THEN st
  ELSE Expanding(st.visited \cup {filepath},
                 Append(st.frames, [file |-> filepath, pos |-> 1]),
                 IF filepath \notin skip_emit
                   THEN Append(st.body, <<"marker", filepath, 0>>)
                   ELSE st.body)

\* sorted lib/**/*.h
lib_headers == [i \in 1..Cardinality({ f \in HeaderFiles : InLib(f) }) |-> i]

HeaderIdle ==
  /\ headers = [f \in HeaderFiles |-> <<>>]
  /\ visited = {}
  /\ frames = <<>>
  /\ body = <<>>
  /\ hrun = [pc |-> "start", next |-> 1, written |-> <<>>]

\* libpython as copy_static_library leaves it before the objects are added
Core(arch) ==
  << [name |-> <<"context.o">>, body |-> Obj("Python", arch, "context.o")] >>
Rebuilt(arch) ==
  << [name |-> <<"xmlparse.o">>, body |-> Obj("earlier build", arch, "xmlparse.o")] >>
    \o Core(arch)
NoLib == [given |-> FALSE, members |-> <<>>]
Lib(members) == [given |-> TRUE, members |-> members]
Libs(arch) == { Lib(Core(arch)), Lib(Rebuilt(arch)) }

InjectReport(outcomes, st) ==
  [outcomes |-> outcomes, log |-> st.log, warnings |-> st.warnings]
InjectIdleReport == [outcomes |-> <<>>, log |-> <<>>, warnings |-> <<>>]

InjectIdle ==
  /\ libpython = [a \in Archs |-> IF a = "x86_64" THEN Lib(Core(a)) ELSE NoLib]
  /\ modDirs = [d \in Subdirs |-> "both"]
  /\ missingObjs = {}
  /\ irun = InjectIdleReport

Init == EmbedInit /\ DecideIdle /\ MergeInit /\ InjectIdle /\ FatIdle /\ HeaderIdle

\* the base snapshot is taken before the payload roots are checked
Embed_AdoptFirst(n, force, tools) ==
  LET r == embed(n, force, tools) IN
  /\ Len(r.target.zips) <= MaxZips
  /\ target' = [target EXCEPT ![n] = r.target]
  /\ base' = [base EXCEPT ![n] = resolve_base(base[n], target[n])]
  /\ stamp' = [stamp EXCEPT ![n] = r.stamp]
  /\ tempZip' = r.tempZip
  /\ run' = r.run
  /\ UNCHANGED <<stdlib, defaults, decideVars, mergeVars, injectVars, fatVars, headerVars>>

\* the stamp is written before zipcopy runs
Embed_StampEarly(n, force, tools) ==
  LET r == embed(n, force, tools) IN
  /\ Len(r.target.zips) <= MaxZips
  /\ target' = [target EXCEPT ![n] = r.target]
  /\ base' = [base EXCEPT ![n] = r.base]
  /\ stamp' = [stamp EXCEPT ![n] = IF r.run.outcome = "fatal_zipcopy"
                                     THEN updated_state(get_current_state(r.base), r.base)
                                     ELSE r.stamp]
  /\ tempZip' = r.tempZip
  /\ run' = r.run
  /\ UNCHANGED <<stdlib, defaults, decideVars, mergeVars, injectVars, fatVars, headerVars>>

\* embed_python.py [--target n] [--force]
Embed(n, force, tools) ==
  LET r == embed(n, force, tools) IN
  /\ Len(r.target.zips) <= MaxZips
  /\ target' = [target EXCEPT ![n] = r.target]
  /\ base' = [base EXCEPT ![n] = r.base]
  /\ stamp' = [stamp EXCEPT ![n] = r.stamp]
  /\ tempZip' = r.tempZip
  /\ run' = r.run
  /\ UNCHANGED <<stdlib, defaults, decideVars, mergeVars, injectVars, fatVars, headerVars>>

\* the stamp survives the snapshot
invalidate_stamp_Kept(stamp_file) == stamp_file

\* "Also invalidate the stamp since base changed"
invalidate_stamp(stamp_file) == NoStamp

\* the stamp is removed before the target is looked at
SaveBase_InvalidateFirst(n) ==
  /\ stamp' = [stamp EXCEPT ![n] = NoStamp]
  /\ IF ~target[n].exists
     THEN /\ run' = [tool |-> "save_base", outcome |-> "fatal", exit |-> 1,
                     reason |-> "target not found", adopted |-> "no"]
          /\ UNCHANGED base
     ELSE /\ base' = [base EXCEPT ![n] = target[n]]
          /\ run' = [tool |-> "save_base", outcome |-> "saved", exit |-> 0,
                     reason |-> "", adopted |-> "no"]
  /\ UNCHANGED <<target, stdlib, defaults, tempZip, decideVars, mergeVars, injectVars, fatVars, headerVars>>

\* embed_python.py [--target n] --save-base
SaveBase(n) ==
  /\ IF ~target[n].exists
     THEN /\ run' = [tool |-> "save_base", outcome |-> "fatal", exit |-> 1,
                     reason |-> "target not found", adopted |-> "no"]
          /\ UNCHANGED <<base, stamp>>
     ELSE /\ base' = [base EXCEPT ![n] = target[n]]
          /\ stamp' = [stamp EXCEPT ![n] = invalidate_stamp(stamp[n])]
          /\ run' = [tool |-> "save_base", outcome |-> "saved", exit |-> 0,
                     reason |-> "", adopted |-> "no"]
  /\ UNCHANGED <<target, stdlib, defaults, tempZip, decideVars, mergeVars, injectVars, fatVars, headerVars>>

\* the linker replaces out/<name> by a freshly linked executable
Relink(n, e) ==
  /\ target' = [target EXCEPT ![n] = Exe(e)]
  /\ run' = Idle
  /\ UNCHANGED <<base, stamp, stdlib, defaults, tempZip, decideVars, mergeVars, injectVars, fatVars, headerVars>>

\* the runtime build (re)creates, edits or removes the stdlib tree
EditStdlib(d) ==
  /\ stdlib' = d
  /\ stdlib' # stdlib
  /\ run' = Idle
  /\ UNCHANGED <<target, base, stamp, defaults, tempZip, decideVars, mergeVars, injectVars, fatVars, headerVars>>

\* the tool files are edited or removed
EditDefaults(d) ==
  /\ defaults' = d
  /\ defaults' # defaults
  /\ run' = Idle
  /\ UNCHANGED <<target, base, stamp, stdlib, tempZip, decideVars, mergeVars, injectVars, fatVars, headerVars>>

\* out/<name> is deleted
RemoveTarget(n) ==
  /\ target[n].exists
  /\ target' = [target EXCEPT ![n] = NoFile]
  /\ run' = Idle
  /\ UNCHANGED <<base, stamp, stdlib, defaults, tempZip, decideVars, mergeVars, injectVars, fatVars, headerVars>>

\* build/<name>.base is deleted
RemoveBase(n) ==
  /\ base[n].exists
  /\ base' = [base EXCEPT ![n] = NoFile]
  /\ run' = Idle
  /\ UNCHANGED <<target, stamp, stdlib, defaults, tempZip, decideVars, mergeVars, injectVars, fatVars, headerVars>>

Dirs == {NoDir} \cup { Dir(t) : t \in Trees }

Next ==
  \/ \E f \in BOOLEAN, t \in ToolOutcomes : Embed(DefaultName, f, t)
  \/ SaveBase(DefaultName)
  \/ \E e \in 1..MaxExe : Relink(DefaultName, e)
  \/ \E d \in Dirs : EditStdlib(d)
  \/ \E d \in Dirs : EditDefaults(d)
  \/ RemoveTarget(DefaultName)
  \/ RemoveBase(DefaultName)

Spec == Init /\ [][Next]_vars

\* --- needs_embedding as a function of its two arguments
\* the digests the arguments are drawn from
MaxHash == 2
Hashes == {Missing} \cup { HexDigest(<<i>>) : i \in 1..MaxHash }
CurrentStates == [base_binary : Hashes, stdlib : Hashes, defaults : Hashes]
StoredStates ==
  {NoState} \cup [kind : {"dict"}, base_binary : Hashes \cup {NoneVal},
                  stdlib : Hashes \cup {NoneVal}, defaults : Hashes \cup {NoneVal}]

DecideInit ==
  /\ argCurrent \in CurrentStates
  /\ argStored \in StoredStates
  /\ decision = Undecided

Decide ==
  /\ decision = Undecided
  /\ decision' = needs_embedding(argCurrent, argStored)
  /\ UNCHANGED <<argCurrent, argStored, embedVars, mergeVars, injectVars, fatVars, headerVars>>

InitDecide == EmbedInit /\ DecideInit /\ MergeInit /\ InjectIdle /\ FatIdle /\ HeaderIdle

NextDecide == Decide

SpecDecide == InitDecide /\ [][NextDecide]_vars

\* --- the merge tool and the toolchain that produces its inputs
InputLists == UNION { [1..k -> InputPaths] : k \in 0..MaxInputs }

\* merge_fat_archive.py OUTPUT INPUT...
Merge(output, inputs, ar1Ok, ar2Ok) ==
  LET r == merge_main(ar, output, inputs, ar1Ok, ar2Ok) IN
  /\ ar' = r.fs
  /\ mrun' = r.run
  /\ UNCHANGED <<embedVars, decideVars, injectVars, fatVars, headerVars>>

\* the toolchain writes an input archive of one architecture
BuildArchive(p) ==
  /\ ~ar[p].exists
  /\ ar' = [ar EXCEPT ![p] = Built(p)]
  /\ mrun' = MergeIdle
  /\ UNCHANGED <<embedVars, decideVars, injectVars, fatVars, headerVars>>

\* an archive is deleted
RemoveArchive(p) ==
  /\ ar[p].exists
  /\ ar' = [ar EXCEPT ![p] = NoArchive]
  /\ mrun' = MergeIdle
  /\ UNCHANGED <<embedVars, decideVars, injectVars, fatVars, headerVars>>

NextMerge ==
  \/ \E inputs \in InputLists, ok1 \in BOOLEAN, ok2 \in BOOLEAN :
       Merge(OutputPath, inputs, ok1, ok2)
  \/ \E p \in InputPaths \cup { Aarch64Of(q) : q \in InputPaths } : BuildArchive(p)
  \/ \E p \in ArPaths : RemoveArchive(p)

SpecMerge == Init /\ [][NextMerge]_vars

\* --- payload roots whose files are renamed
\* the file "1" with the byte 1 of TreeOf(1), renamed to "11" and emptied
RenamedTree == { << <<1, 1>>, <<>> >> }
RenamedDirs == { Dir(t) : t \in Trees \cup {RenamedTree} }

NextRoots ==
  \/ \E f \in BOOLEAN, t \in ToolOutcomes : Embed(DefaultName, f, t)
  \/ SaveBase(DefaultName)
  \/ Relink(DefaultName, 1)
  \/ \E d \in RenamedDirs : EditStdlib(d)
  \/ EditDefaults(Dir(TreeOf(1)))

SpecRoots == Init /\ [][NextRoots]_vars

\* --- a stamp file that is damaged or replaced by other JSON
ClobberStamp(n, s) ==
  /\ stamp[n] # s
  /\ stamp' = [stamp EXCEPT ![n] = s]
  /\ run' = Idle
  /\ UNCHANGED <<target, base, stdlib, defaults, tempZip, decideVars, mergeVars, injectVars, fatVars, headerVars>>

NextStamp ==
  \/ \E f \in BOOLEAN, t \in ToolOutcomes : Embed(DefaultName, f, t)
  \/ Relink(DefaultName, 1)
  \/ \E d \in Dirs : EditStdlib(d)
  \/ EditDefaults(Dir(TreeOf(1)))
  \/ \E s \in {Garbage, NonDict, EmptyDict} : ClobberStamp(DefaultName, s)

SpecStamp == Init /\ [][NextStamp]_vars

\* --- the module objects added to libpython
\* lib_x86 was just copied; lib_aarch64 is None when there is no aarch64 build
InjectInit ==
  /\ libpython \in { [a \in Archs |-> IF a = "x86_64" THEN x ELSE y] :
                 x \in Libs("x86_64"), y \in {Lib(Core("aarch64")), NoLib} }
  /\ modDirs \in [Subdirs -> {"absent", "x86_64", "both"}]
  /\ missingObjs \in { m \in SUBSET ListedObjs : Cardinality(m) <= MaxMissing }
  /\ irun = InjectIdleReport

\* _add_module_objects_to_library(build_dir, lib_x86, lib_aarch64)
AddModuleObjects(fail) ==
  LET st == add_module_objects_to_library(libpython, modDirs, missingObjs, fail) IN
  /\ Len(irun.outcomes) < MaxRuns
  /\ libpython' = st.lib
  /\ irun' = InjectReport(Append(irun.outcomes, st.outcome), st)
  /\ UNCHANGED <<modDirs, missingObjs, embedVars, decideVars, mergeVars, fatVars, headerVars>>

InitInject == EmbedInit /\ DecideIdle /\ MergeInit /\ InjectInit /\ FatIdle /\ HeaderIdle

NextInject == \E fail \in Fails : AddModuleObjects(fail)

SpecInject == InitInject /\ [][NextInject]_vars

\* --- both architectures, through the library copy and the merge
\* copy_static_library(build_dir, install_dir): found, whether a libpython
\* was found; hasAarch64, whether its .aarch64 counterpart exists
CopyStaticLibrary(found, hasAarch64, fail) ==
  LET copied == [a \in Archs |->
                   IF a = "x86_64" \/ hasAarch64
                     THEN Lib(Core(a))
                     ELSE [given |-> FALSE, members |-> libpython[a].members]]
      st == add_module_objects_to_library(copied, modDirs, missingObjs, fail)
  IN
  /\ Len(irun.outcomes) < MaxRuns
  /\ IF found
       THEN /\ libpython' = st.lib
            /\ irun' = InjectReport(Append(irun.outcomes, st.outcome), st)
       ELSE /\ libpython' = libpython
            /\ irun' = [outcomes |-> Append(irun.outcomes, "not found"),
                        log |-> <<>>, warnings |-> <<>>]
  /\ UNCHANGED <<modDirs, missingObjs, embedVars, decideVars, mergeVars, fatVars, headerVars>>

InitArch == Init

NextArch ==
  \/ \E inputs \in InputLists, ok1 \in BOOLEAN, ok2 \in BOOLEAN :
       Merge(OutputPath, inputs, ok1, ok2)
  \/ \E p \in InputPaths \cup { Aarch64Of(q) : q \in InputPaths } : BuildArchive(p)
  \/ \E found \in BOOLEAN, hasAarch64 \in BOOLEAN :
       CopyStaticLibrary(found, hasAarch64, NoFail)

SpecArch == InitArch /\ [][NextArch]_vars

\* --- the final python executable
\* build_python returned: the fat python exists, the others may not
FatInit ==
  /\ bins \in { b \in [BinKinds -> {0} \cup BinVersions] : b["fat"] # 0 }
  /\ libSrc \in BOOLEAN
  /\ pyTmpLib \in BOOLEAN
  /\ outputBin \in {NoOutput} \cup
       { [o EXCEPT !.zips = z] :
           o \in { CopyOf(b) : b \in [BinKinds -> BinVersions] }
                 \cup { Linked(b) : b \in [BinKinds -> BinVersions] },
           z \in {<<>>, <<"lib/">>} }
  /\ frun = FatIdleReport

\* step 1: results/py-tmp is rebuilt and the library compiled
PrepareLibrary(compileOk) ==
  /\ frun.pc \in {"idle", "returned", "exit"}
  /\ pyTmpLib' = libSrc
  /\ frun' = IF libSrc /\ ~compileOk
               THEN FatReport("exit", "compileall failed", outputBin)
               ELSE FatReport("step 2", "none", outputBin)
  /\ UNCHANGED <<bins, libSrc, outputBin, embedVars, decideVars, mergeVars, injectVars, headerVars>>

\* step 2: apelink, or the copy of the fat python
Assemble(linkOk) ==
  LET r == assemble(bins, outputBin, linkOk) IN
  /\ frun.pc = "step 2"
  /\ outputBin' = r.out
  /\ frun' = IF r.ok THEN [frun EXCEPT !.pc = "step 3"]
                      ELSE [frun EXCEPT !.pc = "exit", !.outcome = "apelink failed"]
  /\ UNCHANGED <<bins, libSrc, pyTmpLib, embedVars, decideVars, mergeVars, injectVars, headerVars>>

\* step 3: zip -qr python.com lib/, chmod
AddLibraries(zipOk) ==
  /\ frun.pc = "step 3"
  /\ IF pyTmpLib /\ ~zipOk
       THEN /\ outputBin' = outputBin
            /\ frun' = [frun EXCEPT !.pc = "exit", !.outcome = "zip failed"]
       ELSE /\ outputBin' = IF pyTmpLib
                              THEN [outputBin EXCEPT !.zips = Append(@, "lib/")]
                              ELSE outputBin
            /\ frun' = [frun EXCEPT !.pc = "returned", !.outcome = "ok"]
  /\ UNCHANGED <<bins, libSrc, pyTmpLib, embedVars, decideVars, mergeVars, injectVars, headerVars>>

InitFat == EmbedInit /\ DecideIdle /\ MergeInit /\ InjectIdle /\ FatInit /\ HeaderIdle

NextFat ==
  \/ \E ok \in BOOLEAN : PrepareLibrary(ok)
  \/ \E ok \in BOOLEAN : Assemble(ok)
  \/ \E ok \in BOOLEAN : AddLibraries(ok)

SpecFat == InitFat /\ [][NextFat]_vars

\* --- two target names
\* (target, target_base, stamp_file) as directory and pieces of the file name
get_target_paths_SharedStamp(name) ==
  [target |-> <<"out", <<name>>>>,
   target_base |-> <<"build", <<name, ".base">>>>,
   stamp_file |-> <<"build", <<".embed-python", ".stamp">>>>]
get_target_paths(name) ==
  [target |-> <<"out", <<name>>>>,
   target_base |-> <<"build", <<name, ".base">>>>,
   stamp_file |-> <<"build", <<".embed-python-", name, ".stamp">>>>]

PathsOf(name) ==
  { get_target_paths(name).target, get_target_paths(name).target_base,
    get_target_paths(name).stamp_file }

InitNames == Init

NextNames ==
  \/ \E n \in Names, f \in BOOLEAN, t \in {"ok", "zipcopy_fails"} : Embed(n, f, t)
  \/ \E n \in Names : SaveBase(n)
  \/ \E n \in Names : Relink(n, 1)
  \/ EditStdlib(Dir(TreeOf(1)))
  \/ EditDefaults(Dir(TreeOf(1)))

SpecNames == InitNames /\ [][NextNames]_vars

\* --- the flat header
HeaderInit ==
  /\ headers \in [HeaderFiles -> Contents]
  /\ visited = {}
  /\ frames = <<>>
  /\ body = <<>>
  /\ hrun = [pc |-> "start", next |-> 1, written |-> <<>>]

Top == frames[Len(frames)]
Emits(f) == f \notin skip_emit
Advanced == [frames EXCEPT ![Len(frames)].pos = @ + 1]
HeaderFrame == UNCHANGED <<headers, embedVars, decideVars, mergeVars, injectVars, fatVars>>

\* Phase 1: body = expand(entry)
ExpandEntry ==
  LET st == expand(entry, Expanding(visited, frames, body)) IN
  /\ hrun.pc = "start"
  /\ visited' = st.visited /\ frames' = st.frames /\ body' = st.body
  /\ hrun' = [hrun EXCEPT !.pc = "phase 1"]
  /\ HeaderFrame

\* one turn of the loop over the lines of the file being expanded
ExpandLine ==
  /\ hrun.pc \in {"phase 1", "phase 2"}
  /\ frames # <<>>
  /\ Top.pos <= Len(headers[Top.file])
  /\ LET line == headers[Top.file][Top.pos]
         emitted == IF Emits(Top.file)
                      THEN Append(body, <<"line", Top.file, Top.pos>>)
                      ELSE body
     IN
     IF line.kind = "plain"
       THEN /\ body' = emitted
            /\ frames' = Advanced
            /\ UNCHANGED <<visited, hrun>>
     ELSE IF line.kind = "include"
       THEN LET st == expand(line.file, Expanding(visited, Advanced, body)) IN
            /\ visited' = st.visited /\ frames' = st.frames /\ body' = st.body
            /\ UNCHANGED hrun
     ELSE IF InLib(Top.file)
       THEN /\ hrun' = [hrun EXCEPT !.pc = "exit"]
            /\ UNCHANGED <<visited, frames, body>>
     ELSE /\ body' = emitted
          /\ frames' = Advanced
          /\ UNCHANGED <<visited, hrun>>
  /\ HeaderFrame

\* expand returns: lines 128-130
ExpandReturn ==
  /\ hrun.pc \in {"phase 1", "phase 2"}
  /\ frames # <<>>
  /\ Top.pos > Len(headers[Top.file])
  /\ body' = IF Emits(Top.file) THEN Append(body, <<"end", Top.file, 0>>) ELSE body
  /\ frames' = SubSeq(frames, 1, Len(frames) - 1)
  /\ UNCHANGED <<visited, hrun>>
  /\ HeaderFrame

\* Phase 2: the next header of lib/, or the output once all were swept
Sweep ==
  /\ hrun.pc \in {"phase 1", "phase 2"}
  /\ frames = <<>>
  /\ IF hrun.pc = "phase 1"
       THEN /\ hrun' = [hrun EXCEPT !.pc = "phase 2"]
            /\ UNCHANGED <<visited, frames, body>>
     ELSE IF hrun.next <= Len(lib_headers)
       THEN LET st == expand(lib_headers[hrun.next], Expanding(visited, frames, body)) IN
            /\ visited' = st.visited /\ frames' = st.frames /\ body' = st.body
            /\ hrun' = [hrun EXCEPT !.next = @ + 1]
     ELSE /\ hrun' = [hrun EXCEPT !.pc = "done", !.written = body]
          /\ UNCHANGED <<visited, frames, body>>
  /\ HeaderFrame

InitHeader == EmbedInit /\ DecideIdle /\ MergeInit /\ InjectIdle /\ FatIdle /\ HeaderInit

NextHeader == ExpandEntry \/ ExpandLine \/ ExpandReturn \/ Sweep

\* main runs on without pause until it returns or exits
SpecHeader == InitHeader /\ [][NextHeader]_vars /\ WF_vars(NextHeader)

\* ------------------------------------------------------------ properties
T == target[DefaultName]
B == base[DefaultName]
S == stamp[DefaultName]
Payload == [stdlib |-> stdlib.files, defaults |-> defaults.files]

\* C1 as stated: across relink, save_base, embed and payload edits the target
\* never holds more than one embedded payload archive.
C1_AtMostOnePayload == Len(T.zips) <= 1

\* C1 amended: the target never holds more than one payload archive on top of
\* what its base snapshot holds; with a clean base it holds at most one.
C1_OnePayloadOverBase == B.exists => Len(T.zips) <= Len(B.zips) + 1

\* a rebuild after a payload edit, on a clean base, left exactly one archive
C1_Witness ==
  /\ run.outcome = "embedded" /\ run.reason = "Python stdlib changed"
  /\ B.exists /\ B.zips = <<>> /\ Len(T.zips) = 1

\* C2 as stated: in every reachable state the base snapshot holds no
\* embedded payload content.
C2_BaseClean == B.exists => B.zips = <<>>

\* C2 amended: the base snapshot is only ever written as a byte copy of the
\* target, by save_base or by an embed run that found no base; an embed run
\* never changes a base that exists.
C2_BaseIsSnapshot ==
  [][(base[DefaultName]' # base[DefaultName] /\ base[DefaultName]'.exists)
       => /\ base[DefaultName]' = target[DefaultName]
          /\ (base[DefaultName].exists => run'.tool = "save_base")]_vars

\* save_base took a snapshot of a target that already held a payload
C2_Witness ==
  /\ run.tool = "save_base" /\ run.outcome = "saved"
  /\ B = T /\ Len(B.zips) = 1

\* C3: after a successful embed, a further embed run that completes (skipping,
\* or re-embedding under --force) leaves the target as the first run left it.
C3_EmbedIdempotent ==
  [][(/\ run.tool = "embed" /\ run.outcome = "embedded"
      /\ run'.tool = "embed" /\ run'.outcome \in {"embedded", "skipped"})
       => target' = target]_vars

\* a forced run re-embedded although the stamp said up to date
C3_Witness ==
  /\ run.tool = "embed" /\ run.outcome = "embedded" /\ run.reason = "up to date"
  /\ T = zipcopy(Payload, B)

\* C4 as stated: a merge run with an input that lacks its .aarch64
\* counterpart fails and writes neither the primary nor the secondary output.
C4_MergeFailsAtomically ==
  [][(/\ mrun'.tool = "merge"
      /\ \E i \in 1..Len(mrun'.inputs) : ~ar[Aarch64Of(mrun'.inputs[i])].exists)
       => /\ mrun'.exit # 0
          /\ ar'[mrun'.output] = ar[mrun'.output]
          /\ ar'[Aarch64Of(mrun'.output)] = ar[Aarch64Of(mrun'.output)]]_vars

RECURSIVE MembersInOrder(_, _)
\* the members of the archives at paths, first path first
MembersInOrder(fs, paths) ==
  IF Len(paths) = 0 THEN <<>>
  ELSE MembersInOrder(fs, SubSeq(paths, 1, Len(paths) - 1)) \o fs[paths[Len(paths)]].members

\* C5: a merge run that succeeds leaves, for each architecture, an output
\* whose members are those of that architecture's inputs in input order,
\* members of the same name included as often as they occur.
C5_MergeConcatenates ==
  (mrun.tool = "merge" /\ mrun.exit = 0) =>
    LET x86 == ar[mrun.output]
        arm == ar[Aarch64Of(mrun.output)]
        arm_inputs == [i \in 1..Len(mrun.inputs) |-> Aarch64Of(mrun.inputs[i])]
    IN /\ x86.exists /\ x86.members = MembersInOrder(ar, mrun.inputs)
       /\ arm.exists /\ arm.members = MembersInOrder(ar, arm_inputs)
       /\ \A i \in 1..Len(x86.members) : x86.members[i].arch = "x86_64"
       /\ \A i \in 1..Len(arm.members) : arm.members[i].arch = "aarch64"

\* two inputs that both hold util.o were merged: the output holds it twice
C5_Witness ==
  /\ mrun.tool = "merge" /\ mrun.exit = 0
  /\ Len(mrun.inputs) = 2 /\ mrun.inputs[1] # mrun.inputs[2]
  /\ Cardinality({ i \in 1..Len(ar[OutputPath].members) :
                     ar[OutputPath].members[i].name = "util.o" }) = 2

\* C6: a run whose zipcopy step fails exits non-zero with the target equal to
\* the base snapshot and the stamp as it was before the run.
C6_AppendFailure ==
  [][(run'.tool = "embed" /\ run'.outcome = "fatal_zipcopy")
       => /\ run'.exit # 0
          /\ target'[DefaultName] = base'[DefaultName]
          /\ stamp' = stamp]_vars

\* zipcopy failed on a rebuild over an embedded target with a stamp
C6_Witness ==
  /\ run.tool = "embed" /\ run.outcome = "fatal_zipcopy"
  /\ run.reason = "Python defaults changed"
  /\ T = B /\ S.kind = "dict"

\* the target holds the base plus the current payload, and the stamp
\* records the current inputs
Embedded ==
  /\ T.exists /\ B.exists
  /\ T = zipcopy(Payload, B)
  /\ S = save_state(get_current_state(B))

\* C7 as stated: after a run that failed in or was killed in the half-updated
\* window, a further run that completes ends with the payload in the target
\* and a stamp that matches the current inputs.
C7_RerunRecovers ==
  [][(/\ run.tool = "embed" /\ run.outcome \in {"fatal_zip", "fatal_zipcopy", "killed"}
      /\ run'.tool = "embed" /\ run'.outcome \in {"embedded", "skipped"})
       => Embedded']_vars

\* C8: needs_embedding answers (False, up to date) exactly when there is a
\* stored state, the base hash is not "missing" and all three hashes equal
\* the stored ones; one changed payload root is named in the reason; without
\* a stored state the answer is (True, no previous state).
C8_Decide ==
  (decision # Undecided) =>
    LET has == argStored.kind # "none"
        sameBase == argCurrent.base_binary = argStored.base_binary
        sameStdlib == argCurrent.stdlib = argStored.stdlib
        sameDefaults == argCurrent.defaults = argStored.defaults
        baseOk == argCurrent.base_binary # Missing /\ sameBase
    IN /\ (~decision.needs) <=> (has /\ baseOk /\ sameStdlib /\ sameDefaults)
       /\ (~decision.needs) <=> (decision.reason = "up to date")
       /\ (has /\ baseOk /\ ~sameStdlib /\ sameDefaults)
            => decision = [needs |-> TRUE, reason |-> "Python stdlib changed"]
       /\ (has /\ baseOk /\ sameStdlib /\ ~sameDefaults)
            => decision = [needs |-> TRUE, reason |-> "Python defaults changed"]
       /\ (~has) => decision = [needs |-> TRUE, reason |-> "no previous embed state found"]

\* only the tool-file root differs from the stored state
C8_Witness ==
  /\ decision = [needs |-> TRUE, reason |-> "Python defaults changed"]
  /\ argCurrent.base_binary = argStored.base_binary
  /\ argCurrent.stdlib = argStored.stdlib

\* C9: the reason is the first that applies of: no stored state, base missing,
\* base changed, stdlib changed, defaults changed.
C9_ReasonPriority ==
  (decision # Undecided) =>
    LET none == argStored.kind = "none"
        missing == argCurrent.base_binary = Missing
        baseChanged == argCurrent.base_binary # argStored.base_binary
        stdlibChanged == argCurrent.stdlib # argStored.stdlib
        defaultsChanged == argCurrent.defaults # argStored.defaults
        r == decision.reason
    IN /\ none => r = "no previous embed state found"
       /\ (~none /\ missing) => r = "base binary not found (run --save-base after linking)"
       /\ (~none /\ ~missing /\ baseChanged) => r = "base binary changed (relinked)"
       /\ (~none /\ ~missing /\ ~baseChanged /\ stdlibChanged) => r = "Python stdlib changed"
       /\ (~none /\ ~missing /\ ~baseChanged /\ ~stdlibChanged /\ defaultsChanged)
            => r = "Python defaults changed"

\* base and both payload roots changed at once: the base is reported
C9_Witness ==
  /\ decision.reason = "base binary changed (relinked)"
  /\ argCurrent.stdlib # argStored.stdlib
  /\ argCurrent.defaults # argStored.defaults

\* C10: after save_base has succeeded there is no stamp, needs_embedding on
\* the freshly computed state answers (True, no previous state), and an embed
\* run started now does not skip.
C10_SaveBaseInvalidates ==
  (run.tool = "save_base" /\ run.outcome = "saved") =>
    /\ S = NoStamp
    /\ needs_embedding(get_current_state(B), get_stored_state(S))
         = [needs |-> TRUE, reason |-> "no previous embed state found"]
    /\ \A f \in BOOLEAN, t \in ToolOutcomes : embed(DefaultName, f, t).run.outcome # "skipped"

\* save_base ran on a target that an earlier run had embedded and stamped
C10_Witness ==
  /\ run.tool = "save_base" /\ run.outcome = "saved"
  /\ Len(T.zips) = 1 /\ stdlib.exists /\ defaults.exists

\* C11: save_base with the target absent exits non-zero and leaves the base
\* snapshot, the stamp and every other file as they were.
C11_SaveBaseFailsClean ==
  [][(run'.tool = "save_base" /\ run'.outcome = "fatal")
       => /\ run'.exit # 0
          /\ base' = base /\ stamp' = stamp /\ target' = target
          /\ tempZip' = tempZip]_vars

\* save_base failed while a base snapshot and a stamp existed
C11_Witness ==
  /\ run.tool = "save_base" /\ run.outcome = "fatal"
  /\ ~T.exists /\ B.exists /\ S.kind = "dict"

\* C12: the stamp changes only by being written at the end of an embed run
\* whose zipcopy step succeeded, or by being deleted by save_base; runs that
\* skip and runs that fail leave it as it was.
C12_StampFrame ==
  [][/\ (stamp' # stamp) =>
          \/ /\ run'.tool = "embed" /\ run'.outcome = "embedded"
             /\ stamp'[DefaultName] = save_state(get_current_state(base'[DefaultName]))
          \/ /\ run'.tool = "save_base" /\ run'.outcome = "saved"
             /\ stamp'[DefaultName] = NoStamp
     /\ (run'.tool = "embed" /\ run'.outcome # "embedded") => stamp' = stamp]_vars

\* a run failed at zipcopy after a payload edit: the stamp still records the
\* inputs of the earlier run
C12_Witness ==
  /\ run.tool = "embed" /\ run.outcome = "fatal_zipcopy"
  /\ S.kind = "dict" /\ B.exists
  /\ S # save_state(get_current_state(B))

\* C14: after relink and save_base the next embed run does not skip, and when
\* it completes the target is the relinked executable plus one payload archive
\* and the stamp records the hash of the new base.
C14_RelinkThenEmbed ==
  [][(/\ run.tool = "save_base" /\ run.outcome = "saved"
      /\ target[DefaultName].zips = <<>>
      /\ run'.tool = "embed")
       => /\ run'.outcome # "skipped"
          /\ base' = base
          /\ (run'.outcome = "embedded") =>
               /\ target'[DefaultName] = zipcopy(Payload, target[DefaultName])
               /\ stamp'[DefaultName].kind = "dict"
               /\ stamp'[DefaultName].base_binary = compute_file_hash(target[DefaultName])]_vars

\* the run after a relink to another executable and save_base embedded
C14_Witness ==
  /\ run.tool = "embed" /\ run.outcome = "embedded"
  /\ run.reason = "no previous embed state found"
  /\ B = Exe(2) /\ T = zipcopy(Payload, Exe(2))
  /\ S.base_binary = compute_file_hash(Exe(2))

\* C16: when the merge tool reports missing .aarch64 archives it exits
\* non-zero and the report lists the counterpart of every input whose
\* counterpart is absent.
C16_AllMissingNamed ==
  (mrun.tool = "merge" /\ mrun.error = "missing aarch64 archives") =>
    /\ mrun.exit # 0
    /\ { mrun.missing[i] : i \in 1..Len(mrun.missing) }
         = { Aarch64Of(mrun.inputs[i]) : i \in { j \in 1..Len(mrun.inputs) :
                                                  ~ar[Aarch64Of(mrun.inputs[j])].exists } }
    /\ mrun.missing # <<>>

\* two different inputs lacked their counterparts and both are listed
C16_Witness ==
  /\ mrun.tool = "merge" /\ mrun.error = "missing aarch64 archives"
  /\ Len(mrun.missing) = 2 /\ mrun.missing[1] # mrun.missing[2]

\* the inputs a fatal diagnostic of embed names
Diagnosed(r) ==
  IF r.reason = "Python stdlib not found" THEN {"stdlib"}
  ELSE IF r.reason = "Python defaults not found" THEN {"defaults"}
  ELSE IF r.reason = "No base binary" THEN {"base"}
  ELSE {}

\* C17 as stated: when both payload roots are absent the fatal diagnostic of
\* embed names both of them.
C17_AllOffendersNamed ==
  (run.tool = "embed" /\ run.outcome = "fatal" /\ ~stdlib.exists /\ ~defaults.exists)
    => {"stdlib", "defaults"} \subseteq Diagnosed(run)

\* the payload archive the target ends with
LastPayload == T.zips[Len(T.zips)]

\* the target holds the base plus one payload archive and the stamp records
\* the base and the roots that archive was built from
EmbeddedEarlier ==
  /\ T.exists /\ B.exists /\ Len(T.zips) = Len(B.zips) + 1
  /\ T = zipcopy(LastPayload, B)
  /\ S = [kind |-> "dict", base_binary |-> compute_file_hash(B),
          stdlib |-> compute_dir_hash(Dir(LastPayload.stdlib)),
          defaults |-> compute_dir_hash(Dir(LastPayload.defaults))]

\* exactly one payload root differs from what the target holds
OneRootChanged ==
  /\ stdlib.exists /\ defaults.exists
  /\ (stdlib.files # LastPayload.stdlib) # (defaults.files # LastPayload.defaults)

\* C13 as stated: when one payload root has changed since the last embed
\* (base unchanged, stamp present), an embed run that completes leaves the
\* target equal to the base plus one payload archive built from the current
\* roots.
C13_ChangeDetected ==
  [][(/\ EmbeddedEarlier /\ OneRootChanged
      /\ run'.tool = "embed" /\ run'.outcome \in {"embedded", "skipped"})
       => target'[DefaultName] = zipcopy(Payload, base[DefaultName])]_vars

\* C15 as stated: with a stamp file that is unparseable, or parseable but not
\* a record of the tracked hashes, an embed run does not abort on the stamp
\* and does not skip: it goes on to re-embed.
C15_CorruptStampRecovered ==
  [][(/\ stamp[DefaultName].kind \in {"garbage", "nondict"} \/ stamp[DefaultName] = EmptyDict
      /\ stdlib.exists /\ defaults.exists
      /\ base[DefaultName].exists \/ target[DefaultName].exists
      /\ run'.tool = "embed")
       => run'.outcome \in {"embedded", "fatal_zip", "fatal_zipcopy", "killed"}]_vars

\* --- adding the module objects (python/build.py)
X86 == libpython["x86_64"].members
A64 == libpython["aarch64"].members
Names_of(archive) == { archive[i].name : i \in 1..Len(archive) }
Count(archive, name) == Cardinality(Positions(archive, name))

\* C18: a call of _add_module_objects_to_library that follows a successful
\* call on the same groups and the same source objects leaves both archives
\* exactly as the first call left them: every member is replaced by itself,
\* none is added a second time.
C18_InjectIdempotent ==
  [][(/\ irun.outcomes # <<>>
      /\ irun.outcomes[Len(irun.outcomes)] = "ok"
      /\ Len(irun'.outcomes) = Len(irun.outcomes) + 1
      /\ irun'.outcomes[Len(irun'.outcomes)] = "ok")
       => /\ libpython' = libpython
          /\ \A i \in 1..Len(irun'.log) :
               irun'.log[i].op = "add"
                 => \A k \in 1..Len(irun'.log[i].names) :
                      Count(libpython'[irun'.log[i].arch].members,
                            irun'.log[i].names[k]) = 1]_vars

\* two successful calls in a row, the second one re-adding members to both archives
C18_Witness ==
  /\ irun.outcomes = <<"ok", "ok">>
  /\ \E i, j \in 1..Len(irun.log) :
       /\ irun.log[i].op = "add" /\ irun.log[i].arch = "x86_64"
       /\ irun.log[j].op = "add" /\ irun.log[j].arch = "aarch64"
  /\ <<"mpdec_", "aarch64_", "context.o">> \in Names_of(A64)
  /\ <<"xmlparse.o">> \in Names_of(X86)

\* the list of groups without its k-th entry
Without(groups, k) == SubSeq(groups, 1, k - 1) \o SubSeq(groups, k + 1, Len(groups))
LastOutcome(r) == r.outcomes[Len(r.outcomes)]
\* the archiver invocation a call reported as failed
FailOf(log) ==
  IF log # <<>> /\ log[Len(log)].op = "error"
    THEN <<log[Len(log)].subdir, log[Len(log)].arch>>
    ELSE NoFail

\* C19: when the source directory of a group does not exist, the call fails
\* only if an archiver invocation fails, warns about that group when it runs
\* to its end, and leaves
\* both archives, and the sequence of staged copies and archiver calls,
\* exactly as the same call on the list without that group does, whatever
\* the position of the group in the list.
C19_MissingGroupSkipped ==
  [][\A k \in 1..Len(object_groups) :
       (/\ modDirs[object_groups[k].subdir] = "absent"
        /\ Len(irun'.outcomes) = Len(irun.outcomes) + 1)
         => LET r == inject(Without(object_groups, k), libpython, modDirs,
                            missingObjs, FailOf(irun'.log))
            IN /\ LastOutcome(irun') = "ok"
                    => \E w \in 1..Len(irun'.warnings) :
                         irun'.warnings[w] = object_groups[k].subdir
               /\ LastOutcome(irun') = r.outcome
               /\ libpython' = r.lib
               /\ irun'.log = r.log]_vars

\* the middle group has no directory, the groups around it were added to both archives
C19_Witness ==
  /\ irun.outcomes = <<"ok">>
  /\ irun.warnings = <<"expat">>
  /\ modDirs["expat"] = "absent"
  /\ {<<"Hacl_Hash_SHA2.o">>, <<"mpdec_", "basearith.o">>} \subseteq Names_of(X86)
  /\ {<<"Hacl_Hash_SHA2.o">>, <<"mpdec_", "aarch64_", "basearith.o">>} \subseteq Names_of(A64)
  /\ <<"xmlrole.o">> \notin Names_of(X86) \cup Names_of(A64)

\* the staged copies and archiver calls of the last call, in order
Staged(i) == irun.log[i].op = "stage"
Consumes(j, i) ==
  /\ irun.log[j].op \in {"add", "error"}
  /\ irun.log[j].arch = irun.log[i].arch
  /\ \E k \in 1..Len(irun.log[j].names) : irun.log[j].names[k] = irun.log[i].names[1]

\* C20: within one call, a copy staged for one architecture never has the
\* file name of a copy staged for the other architecture, and every staged
\* copy is handed to its archiver before any later copy is staged under its
\* name.
C20_StagedNamesDisjoint ==
  \A i, j \in 1..Len(irun.log) :
    (Staged(i) /\ Staged(j) /\ i < j)
      => /\ irun.log[i].arch # irun.log[j].arch
              => irun.log[i].names # irun.log[j].names
         /\ irun.log[i].names = irun.log[j].names
              => \E c \in (i + 1)..(j - 1) : Consumes(c, i)

\* both copies of the object whose name the prefix is for were staged and archived
C20_Witness ==
  /\ irun.outcomes # <<>> /\ LastOutcome(irun) = "ok"
  /\ \E i, j, c, d \in 1..Len(irun.log) :
       /\ i < c /\ c < j /\ j < d
       /\ Staged(i) /\ irun.log[i].arch = "x86_64"
       /\ irun.log[i].names = << <<"mpdec_", "context.o">> >>
       /\ Staged(j) /\ irun.log[j].arch = "aarch64"
       /\ irun.log[j].names = << <<"mpdec_", "aarch64_", "context.o">> >>
       /\ Consumes(c, i) /\ Consumes(d, j)

\* --- the two architecture trees
\* the architecture whose tree a path lies in
TreeArch(p) ==
  IF p.parent # <<>> /\ p.parent[Len(p.parent)] = ".aarch64" THEN "aarch64" ELSE "x86_64"

\* C21: every archive written by the merge under P/name holds x86_64
\* members only and every archive under P/.aarch64/name aarch64 members
\* only, the secondary output of a merge is made of the members of the
\* .aarch64 counterparts of its inputs, and each libpython holds objects of
\* its own architecture only.
C21_ArchitecturesApart ==
  /\ \A p \in ArPaths : \A i \in 1..Len(ar[p].members) :
       ar[p].members[i].arch = TreeArch(p)
  /\ mrun.tool = "merge" /\ mrun.exit = 0
       => /\ ar[mrun.output].members = AddLibs(ar, mrun.inputs)
          /\ ar[Aarch64Of(mrun.output)].members =
               AddLibs(ar, [i \in 1..Len(mrun.inputs) |-> Aarch64Of(mrun.inputs[i])])
  /\ \A a \in Archs : \A i \in 1..Len(libpython[a].members) :
       libpython[a].members[i].body[2] = a

\* both trees were merged and both libraries received their objects
C21_Witness ==
  /\ mrun.tool = "merge" /\ mrun.exit = 0 /\ Len(mrun.inputs) = 2
  /\ mrun.inputs[1] # mrun.inputs[2]
  /\ irun.outcomes # <<>> /\ LastOutcome(irun) = "ok"
  /\ <<"mpdec_", "aarch64_", "context.o">> \in Names_of(A64)
  /\ <<"mpdec_", "context.o">> \in Names_of(X86)
  /\ <<"xmlparse.o">> \in Names_of(A64)

\* --- create_fat_binary
BothArchs == bins["x86_64"] # 0 /\ bins["aarch64"] # 0

\* C22: step 2 of create_fat_binary ends in one of two ways: with python.com
\* written, as the apelink output of the two architecture-specific
\* executables when both exist and as a copy of the fat python otherwise,
\* whatever python.com held before; or, only when both exist, with apelink
\* failing and the run stopped.
C22_AssembleFromInputs ==
  [][frun.pc = "step 2" /\ frun'.pc # "step 2"
       => \/ /\ frun'.pc = "step 3"
             /\ outputBin' = IF BothArchs THEN Linked(bins) ELSE CopyOf(bins)
          \/ /\ frun'.pc = "exit" /\ frun'.outcome = "apelink failed"
             /\ BothArchs]_vars

\* python.com left by an earlier run, made from other executables, was replaced
C22_Witness ==
  /\ frun.pc = "step 3"
  /\ frun.prev.exists /\ frun.prev.image[1] = "apelink" /\ frun.prev.zips # <<>>
  /\ ~BothArchs
  /\ outputBin = CopyOf(bins)

\* --- the directory hash
\* C23: two payload roots that hold different sets of (relative path, bytes)
\* pairs have different directory hashes.
C23_HashSeparatesTrees ==
  (stdlib.exists /\ defaults.exists /\ stdlib.files # defaults.files)
    => compute_dir_hash(stdlib) # compute_dir_hash(defaults)

\* --- the up-to-date skip of embed
\* decide reports "up to date" for the base the run works with
UpToDate ==
  LET stored == get_stored_state(S) IN
  /\ stored.kind # "nondict"
  /\ ~needs_embedding(get_current_state(resolve_base(B, T)), stored).needs
Rewrites == {"embedded", "killed", "fatal_zip", "fatal_zipcopy"}

\* C24: a run of embed that gets past the checks of its inputs skips exactly
\* when --force is not set, the state is up to date and target exists, and
\* then leaves target and stamp as they were; in every other case it copies
\* the base over target, also when --force is set or target is missing
\* while the stored state matches the current one.
C24_SkipExactly ==
  \A force \in BOOLEAN, tools \in ToolOutcomes :
    LET r == embed(DefaultName, force, tools) IN
    r.run.outcome # "fatal"
      => /\ r.run.outcome = "skipped" <=> (~force /\ UpToDate /\ T.exists)
         /\ r.run.outcome = "skipped" => r.target = T /\ r.stamp = S
         /\ r.run.outcome # "skipped"
              => /\ r.run.outcome \in Rewrites
                 /\ r.target \in {copy_base(r.base, T), zipcopy(Payload, copy_base(r.base, T))}

\* --- what a call of _add_module_objects_to_library adds
\* the objects of architecture a that a call finds: <<group, file name>>
Found(a) ==
  { gf \in UNION { { <<object_groups[k], object_groups[k].files[j]>> :
                       j \in 1..Len(object_groups[k].files) } :
                   k \in 1..Len(object_groups) } :
      /\ libpython[a].given
      /\ modDirs[gf[1].subdir] # "absent"
      /\ a = "aarch64" => modDirs[gf[1].subdir] = "both"
      /\ <<gf[1].subdir, a, gf[2]>> \notin missingObjs }
\* the member name the claim gives an object
FinalName(g, a, f) ==
  IF g.prefix = <<>> THEN <<f>>
  ELSE IF a = "x86_64" THEN g.prefix \o <<f>>
  ELSE g.prefix \o <<"aarch64_">> \o <<f>>
FinalNames(a) == { FinalName(gf[1], a, gf[2]) : gf \in Found(a) }

\* C25: a call that ends without an archiver failure leaves in each archive
\* the members it held under other names, unchanged and in place, and for
\* every object found for that architecture exactly one member with the
\* final name and the bytes of that object; nothing else is added, an
\* architecture without an archive gets nothing, context.o of the
\* interpreter stays, and a call fails only when an archiver does.
C25_InjectResult ==
  [][Len(irun'.outcomes) = Len(irun.outcomes) + 1
       => /\ LastOutcome(irun') = "failed" => FailOf(irun'.log) # NoFail
          /\ LastOutcome(irun') = "ok" =>
               \A a \in Archs :
                 LET before == libpython[a].members
                     after == libpython'[a].members
                 IN /\ Names_of(after) = Names_of(before) \cup FinalNames(a)
                    /\ Len(after) = Len(before)
                                      + Cardinality(FinalNames(a) \ Names_of(before))
                    /\ \A i \in 1..Len(before) :
                         before[i].name \notin FinalNames(a) => after[i] = before[i]
                    /\ \A gf \in Found(a) :
                         /\ Count(after, FinalName(gf[1], a, gf[2])) = 1
                         /\ \E i \in 1..Len(after) :
                              /\ after[i].name = FinalName(gf[1], a, gf[2])
                              /\ after[i].body = <<gf[1].subdir, a, gf[2]>>
                    /\ \A i \in 1..Len(before) :
                         before[i].name = <<"context.o">> => after[i] = before[i]
                    /\ ~libpython[a].given => after = before]_vars

\* one listed aarch64 object is missing; both archives got the decimal objects
\* next to the interpreter's context.o
C25_Witness ==
  /\ irun.outcomes = <<"ok">>
  /\ missingObjs = {<<"expat", "aarch64", "xmlrole.o">>}
  /\ {<<"context.o">>, <<"mpdec_", "context.o">>, <<"xmlrole.o">>} \subseteq Names_of(X86)
  /\ {<<"context.o">>, <<"mpdec_", "aarch64_", "context.o">>, <<"xmlparse.o">>}
       \subseteq Names_of(A64)
  /\ <<"xmlrole.o">> \notin Names_of(A64)

\* --- the input checks of embed
\* C26: a run of embed that finds a payload root missing, or neither base
\* nor target, exits with status 1 and leaves target, base, stamp and the
\* scratch archive as they were.
C26_AbortBeforeMutation ==
  [][(/\ run'.tool = "embed"
      /\ \/ ~stdlib.exists
         \/ ~defaults.exists
         \/ ~B.exists /\ ~T.exists)
       => /\ run'.outcome = "fatal" /\ run'.exit = 1
          /\ target' = target /\ base' = base /\ stamp' = stamp
          /\ tempZip' = tempZip]_vars

\* the defaults root is gone while a target without snapshot waits to be adopted
C26_Witness ==
  /\ run.tool = "embed" /\ run.outcome = "fatal"
  /\ run.reason = "Python defaults not found"
  /\ stdlib.exists /\ ~defaults.exists
  /\ T.exists /\ ~B.exists

\* --- the base snapshot under embed
\* C27: a run of embed leaves an existing base snapshot as it is, and writes
\* an absent one only as a copy of the target of that moment; a base that
\* exists is given other contents by --save-base alone.
C27_BaseFrame ==
  [][/\ run'.tool = "embed"
          => /\ B.exists => base' = base
             /\ ~B.exists => base'[DefaultName] \in {B, T}
     /\ (B.exists /\ base'[DefaultName].exists /\ base'[DefaultName] # B)
          => run'.tool = "save_base" /\ run'.outcome = "saved"]_vars

\* embed ran on an existing snapshot and wrote a target that differs from it
C27_Witness ==
  /\ run.tool = "embed" /\ run.outcome = "embedded" /\ run.adopted = "no"
  /\ B.exists /\ B.zips = <<>>
  /\ T = zipcopy(Payload, B)

\* --- stamp and target at the up-to-date skip
\* C28: whenever embed returns on the up-to-date path, target is the base
\* snapshot with the payload of the recorded state, which on that path is
\* the current payload, appended.
C28_SkipMeansEmbedded ==
  [][(run'.tool = "embed" /\ run'.outcome = "skipped")
       => target'[DefaultName] = zipcopy(Payload, base'[DefaultName])]_vars

\* --- runs for different target names
FilesOf(n) == <<target[n], base[n], stamp[n]>>

\* C29: the three paths of one target name are paths of no other name, and
\* every run of embed or --save-base is a run for one name n that leaves the
\* target, base and stamp of every other name as they were.
C29_TargetIsolation ==
  [][run'.tool \in {"embed", "save_base"}
       => /\ \A n, m \in Names : n # m => PathsOf(n) \cap PathsOf(m) = {}
          /\ \E n \in Names :
               /\ \A m \in Names \ {n} : FilesOf(m)' = FilesOf(m)
               /\ run'.tool = "embed"
                    => \E f \in BOOLEAN, t \in ToolOutcomes :
                         LET r == embed(n, f, t) IN
                         /\ run' = r.run
                         /\ FilesOf(n)' = <<r.target, r.base, r.stamp>>
               /\ run'.tool = "save_base"
                    => /\ target'[n] = target[n]
                       /\ run'.outcome = "saved"
                            => base'[n] = target[n] /\ stamp'[n] = NoStamp
                       /\ run'.outcome = "fatal" => FilesOf(n)' = FilesOf(n)]_vars

\* scaffold was embedded while ralph, embedded earlier and relinked since, kept its files
C29_Witness ==
  /\ run.tool = "embed" /\ run.outcome = "embedded"
  /\ target["scaffold"] = zipcopy(Payload, base["scaffold"])
  /\ stamp["scaffold"].kind = "dict"
  /\ stamp["ralph"].kind = "dict"
  /\ target["ralph"].zips = <<>> /\ base["ralph"].exists
  /\ run.reason = "no previous embed state found"

\* --- gen_header.py
Emitted(kind, f) == { i \in 1..Len(body) : body[i][1] = kind /\ body[i][2] = f }
LinesOf(f, k) == { i \in 1..Len(body) : body[i] = <<"line", f, k>> }

\* C30: whatever the header files include, each other or themselves, main
\* comes to its end (the output, or the exit on an #include it cannot
\* resolve), and no header file has its marker, any of its lines or its
\* closing empty line emitted more than once, the umbrella header none.
C30_ExpandTerminatesOnce ==
  /\ <>(hrun.pc \in {"done", "exit"})
  /\ [](\A f \in HeaderFiles :
          /\ Cardinality(Emitted("marker", f)) <= 1
          /\ Cardinality(Emitted("end", f)) <= 1
          /\ \A k \in 1..Len(headers[f]) : Cardinality(LinesOf(f, k)) <= 1
          /\ f \in skip_emit => Emitted("marker", f) \cup Emitted("line", f) = {})

\* two headers that include each other, reached from the umbrella, written once
C30_Witness ==
  /\ hrun.pc = "done"
  /\ headers[1] = <<Include(2)>>
  /\ headers[2] = <<Include(3)>>
  /\ headers[3] = <<Include(2)>>
  /\ hrun.written = << <<"marker", 2, 0>>, <<"marker", 3, 0>>, <<"end", 3, 0>>, <<"end", 2, 0>> >>

====
